---- MODULE Spec2Model ----
(***************************************************************************)
(* Model of scripts/update_projects.py: the table merger (update_readme),  *)
(* the text helpers it is built from, and the ranker at the end of         *)
(* build_table_rows.                                                       *)
(*                                                                         *)
(* A Python str is a sequence of symbols.  A symbol is one character,      *)
(* except for a few literals the code only ever handles as a whole:        *)
(*   "NL" = "\n"   "CR" = "\r"   "FS" = the full-width slash               *)
(*   "H"  = the scheme prefix "http://" (or "https://")                    *)
(*   "CAT" "DEV" "PRJ" "LNK" "DSC" = the five header words of TABLE_HEADER *)
(*   "<S>" = AUTO_START     "<E>" = AUTO_END                               *)
(*   "X"   = an upper-case letter whose lower case is "x"                  *)
(***************************************************************************)
EXTENDS Integers, Sequences, FiniteSets

\* ------------------------------------------------------------------ bounds
MaxRuns == 2
MaxNew == 2
MaxTotalCap == 2
MaxTextLen == 4
MaxLenCap == 5
MaxCands == 3

\* ------------------------------------------------------- str primitives
SetMin(S) == CHOOSE x \in S : \A y \in S : x <= y
SetMax(S) == CHOOSE x \in S : \A y \in S : x >= y

IsSpace(c) == c \in {" ", "NL", "CR"}

\* str.strip()
Strip(s) ==
  LET idx == {i \in 1..Len(s) : ~IsSpace(s[i])}
  IN IF idx = {} THEN <<>> ELSE SubSeq(s, SetMin(idx), SetMax(idx))

\* str.rstrip()
RStrip(s) ==
  LET idx == {i \in 1..Len(s) : ~IsSpace(s[i])}
  IN IF idx = {} THEN <<>> ELSE SubSeq(s, 1, SetMax(idx))

\* str.strip("|")
StripPipes(s) ==
  LET idx == {i \in 1..Len(s) : s[i] # "|"}
  IN IF idx = {} THEN <<>> ELSE SubSeq(s, SetMin(idx), SetMax(idx))

\* str.startswith(p)
StartsWith(s, p) == Len(s) >= Len(p) /\ SubSeq(s, 1, Len(p)) = p

\* p in s
Contains(s, p) == \E i \in 0..(Len(s) - Len(p)) : SubSeq(s, i + 1, i + Len(p)) = p

\* str.lower()
Lower(s) == [i \in 1..Len(s) |-> IF s[i] = "X" THEN "x" ELSE s[i]]

\* str.split(sep), sep one character
RECURSIVE Split(_, _)
Split(s, sep) ==
  LET idx == {i \in 1..Len(s) : s[i] = sep}
  IN IF idx = {} THEN <<s>>
     ELSE LET i == SetMin(idx)
          IN <<SubSeq(s, 1, i - 1)>> \o Split(SubSeq(s, i + 1, Len(s)), sep)

\* str.splitlines(): "\n", "\r" and "\r\n" end a line; no empty last line
RECURSIVE SplitLines(_)
SplitLines(s) ==
  LET idx == {i \in 1..Len(s) : s[i] \in {"NL", "CR"}}
  IN IF s = <<>> THEN <<>>
     ELSE IF idx = {} THEN <<s>>
     ELSE LET i == SetMin(idx)
              j == IF s[i] = "CR" /\ i < Len(s) /\ s[i + 1] = "NL" THEN i + 1 ELSE i
          IN <<SubSeq(s, 1, i - 1)>> \o SplitLines(SubSeq(s, j + 1, Len(s)))

\* sep.join(parts)
RECURSIVE Join(_, _)
Join(parts, sep) ==
  IF parts = <<>> THEN <<>>
  ELSE IF Len(parts) = 1 THEN parts[1]
  ELSE parts[1] \o sep \o Join(Tail(parts), sep)

\* s[:k], k possibly negative
Prefix(s, k) ==
  IF k >= 0 THEN SubSeq(s, 1, IF k < Len(s) THEN k ELSE Len(s))
  ELSE SubSeq(s, 1, IF Len(s) + k > 0 THEN Len(s) + k ELSE 0)

\* s.find(c) for a one-symbol literal, 1-based; 0 when absent (Python's -1)
Find(s, c) ==
  LET idx == {i \in 1..Len(s) : s[i] = c}
  IN IF idx = {} THEN 0 ELSE SetMin(idx)

\* --------------------------------------------------------------- literals
AUTO_START == <<"<S>">>
AUTO_END == <<"<E>">>
TABLE_HEADER ==
  <<"|", " ", "CAT", " ", "|", " ", "DEV", " ", "|", " ", "PRJ", " ",
    "|", " ", "LNK", " ", "|", " ", "DSC", " ", "|">>
TABLE_DIVIDER ==
  <<"|", "-", "-", "-", "|", "-", "-", "-", "|", "-", "-", "-",
    "|", "-", "-", "-", "|", "-", "-", "-", "|">>
ELLIPSIS == <<".", ".", ".">>

\* ---------------------------------------------------------- file access
\* open(path, "r"): universal newlines, "\r\n" and "\r" are read as "\n"
read_text(raw) ==
  LET marked == [i \in 1..Len(raw) |->
                   IF raw[i] = "NL" /\ i > 1 /\ raw[i - 1] = "CR" THEN "CRLF"
                   ELSE IF raw[i] = "CR" THEN "NL" ELSE raw[i]]
  IN SelectSeq(marked, LAMBDA c : c # "CRLF")

\* open(path, "w") on a platform whose os.linesep is "\n": stored as given
write_text(text) == text

\* ------------------------------------------------------- pure functions
parse_line(line0) ==
  LET line == Strip(line0)
      raw == Split(StripPipes(line), "|")
      cols == [i \in 1..Len(raw) |-> Strip(raw[i])]
  IN IF ~StartsWith(line, <<"|">>) THEN <<>>
     ELSE IF StartsWith(line, <<"|", "-", "-", "-">>) THEN <<>>
     ELSE IF Len(cols) < 5 THEN <<>>
     ELSE IF cols[1] = <<"CAT">> /\ cols[2] = <<"DEV">> THEN <<>>
     ELSE <<SubSeq(cols, 1, 5)>>

RECURSIVE parse_lines(_)
parse_lines(lines) ==
  IF lines = <<>> THEN <<>> ELSE parse_line(lines[1]) \o parse_lines(Tail(lines))

parse_markdown_rows(block) == parse_lines(SplitLines(block))

extract_url(cell) ==
  LET opens == {i \in 1..Len(cell) :
                  /\ cell[i] = "("
                  /\ i + 1 <= Len(cell)
                  /\ cell[i + 1] = "H"
                  /\ \E j \in (i + 3)..Len(cell) :
                        /\ cell[j] = ")"
                        /\ \A k \in (i + 2)..(j - 1) : cell[k] # ")"}
  IN IF opens # {}
     THEN LET i == SetMin(opens)
              j == SetMin({k \in (i + 2)..Len(cell) : cell[k] = ")"})
          IN SubSeq(cell, i + 1, j - 1)
     ELSE IF StartsWith(cell, <<"H">>) THEN cell
     ELSE <<>>

sanitize_cell(text) ==
  Strip([i \in 1..Len(text) |->
           IF text[i] = "|" THEN "FS" ELSE IF text[i] = "NL" THEN " " ELSE text[i]])

truncate_text(text, max_len) ==
  IF max_len <= 0 THEN text
  ELSE IF Len(text) <= max_len THEN text
  ELSE RStrip(Prefix(text, max_len - 3)) \o ELLIPSIS

is_excluded_text(text, exclude_keywords) ==
  \E n \in 1..Len(exclude_keywords) : Contains(Lower(text), Lower(exclude_keywords[n]))

render_row(row) ==
  LET padded == row \o [i \in 1..(IF Len(row) < 5 THEN 5 - Len(row) ELSE 0) |-> <<>>]
  IN <<"|", " ">> \o Join(SubSeq(padded, 1, 5), <<" ", "|", " ">>) \o <<" ", "|">>

build_table_text(rows) ==
  Join(<<TABLE_HEADER, TABLE_DIVIDER>> \o [i \in 1..Len(rows) |-> render_row(rows[i])],
       <<"NL">>)

\* ------------------------------------------------------------ update_readme
\* variant: the order of the two markers is not tested
markers_missing_unordered(start, end) == start = 0 \/ end = 0

\* the marker test of update_readme; positions are 1-based, 0 is "not found"
markers_missing(start, end) == start = 0 \/ end = 0 \/ end < start

\* content[start + len(AUTO_START) : end]
block_of(text, start, end) == SubSeq(text, start + Len(AUTO_START), end - 1)

prune_rows(rows, exclude_keywords, prune_existing) ==
  IF prune_existing /\ exclude_keywords # <<>>
  THEN SelectSeq(rows, LAMBDA row :
         ~is_excluded_text(row[3] \o <<" ">> \o row[5], exclude_keywords))
  ELSE rows

existing_urls_of(rows) ==
  {extract_url(rows[i][4]) : i \in 1..Len(rows)} \ {<<>>}

\* variant: the link cell itself, not its URL, is looked up
filter_new_by_cell(rows, urls) ==
  SelectSeq(rows, LAMBDA row : ~(extract_url(row[4]) # <<>> /\ row[4] \in urls))

filter_new(rows, urls) ==
  SelectSeq(rows, LAMBDA row :
    ~(extract_url(row[4]) # <<>> /\ extract_url(row[4]) \in urls))

normalize_row(row, max_desc_len) ==
  LET r == SubSeq(row \o <<<<>>, <<>>, <<>>, <<>>, <<>>>>, 1, 5)
  IN <<sanitize_cell(r[1]), sanitize_cell(r[2]), sanitize_cell(r[3]),
       sanitize_cell(r[4]), sanitize_cell(truncate_text(r[5], max_desc_len))>>

\* variant: the last max_total rows are kept
cap_rows_keep_last(rows, maxTotal) ==
  IF maxTotal # 0 /\ Len(rows) > maxTotal
  THEN SubSeq(rows, Len(rows) - maxTotal + 1, Len(rows)) ELSE rows

\* variant: one row too many is kept
cap_rows_off_by_one(rows, maxTotal) ==
  IF maxTotal # 0 /\ Len(rows) > maxTotal THEN Prefix(rows, maxTotal + 1) ELSE rows

cap_rows(rows, maxTotal) ==
  IF maxTotal # 0 /\ Len(rows) > maxTotal THEN Prefix(rows, maxTotal) ELSE rows

merge_rows(filtered, existing, maxTotal, maxDescLen) ==
  LET all == filtered \o existing
  IN cap_rows([i \in 1..Len(all) |-> normalize_row(all[i], maxDescLen)], maxTotal)

\* content[:start] + new_block + content[end + len(AUTO_END):]
splice(text, start, end, rows) ==
  SubSeq(text, 1, start - 1)
    \o AUTO_START \o <<"NL">> \o build_table_text(rows) \o <<"NL">> \o AUTO_END
    \o SubSeq(text, end + Len(AUTO_END), Len(text))

\* the table the next run will find in a document
table_of(doc) ==
  LET text == read_text(doc)
  IN parse_markdown_rows(block_of(text, Find(text, AUTO_START[1]), Find(text, AUTO_END[1])))

\* ------------------------------------------------------------------ ranker
\* the sort key of build_table_rows; tuples compare lexicographically
rank_key(c, prefer_homepage) ==
  IF prefer_homepage
  THEN <<IF c.has_homepage THEN 1 ELSE 0, c.stars, c.pushed_at>>
  ELSE <<c.stars, c.pushed_at>>

key_less(a, b) ==
  \E i \in 1..Len(a) : a[i] < b[i] /\ \A j \in 1..(i - 1) : a[j] = b[j]

\* variant: ascending sort then reversal, which turns ties around
insert_desc_unstable(sorted, c, prefer_homepage) ==
  LET after == {i \in 1..Len(sorted) :
                  key_less(rank_key(c, prefer_homepage), rank_key(sorted[i], prefer_homepage))}
      n == IF after = {} THEN 0 ELSE SetMax(after)
  IN SubSeq(sorted, 1, n) \o <<c>> \o SubSeq(sorted, n + 1, Len(sorted))

\* list.sort(key=..., reverse=True) is stable: an item goes after the items whose
\* key is greater than or equal to its own
insert_desc(sorted, c, prefer_homepage) ==
  LET after == {i \in 1..Len(sorted) :
                  ~key_less(rank_key(sorted[i], prefer_homepage), rank_key(c, prefer_homepage))}
      n == IF after = {} THEN 0 ELSE SetMax(after)
  IN SubSeq(sorted, 1, n) \o <<c>> \o SubSeq(sorted, n + 1, Len(sorted))

RECURSIVE sort_desc(_, _)
sort_desc(cands, prefer_homepage) ==
  IF cands = <<>> THEN <<>>
  ELSE insert_desc(sort_desc(SubSeq(cands, 1, Len(cands) - 1), prefer_homepage),
                   cands[Len(cands)], prefer_homepage)

\* [item["row"] for item in candidates[:max_new]]
rank_rows(cands, prefer_homepage, max_new) ==
  LET sorted == Prefix(sort_desc(cands, prefer_homepage), max_new)
  IN [i \in 1..Len(sorted) |-> sorted[i].row]

\* ------------------------------------------------------------------ inputs
Link(name, url) == <<"[">> \o name \o <<"]", "(">> \o url \o <<")">>

\* a repository with a long description
RowA == << <<"c">>, <<"d">>, <<"p">>, Link(<<"p">>, <<"H", "x">>),
           <<"a", "b", " ", "c", "d", "e", "f", "g">> >>
\* another repository with the same homepage; its description holds "|"
RowB == << <<"c">>, <<"d">>, <<"q">>, Link(<<"q">>, <<"H", "x">>), <<"a", "|", "b">> >>
\* a repository without html_url; its description holds "\n"
RowC == << <<"c">>, <<"d">>, <<"p">>, Link(<<"p">>, <<>>), <<"a", "NL", "b">> >>
\* a repository named "X" whose description holds "\r"
RowD == << <<"c">>, <<"d">>, <<"X">>, Link(<<"X">>, <<"H", "y">>), <<"a", "CR", "b">> >>
\* a stored row named "X"
RowK == << <<"c">>, <<"d">>, <<"X">>, Link(<<"X">>, <<"H", "y">>), <<"a">> >>
\* a stored row whose link cell is a bare URL
RowE == << <<"c">>, <<"d">>, <<"p">>, <<"H", "x">>, <<"b">> >>

\* the candidates in rank order; a run's new_rows is a selection of them
Ranked == <<RowA, RowB, RowC, RowD>>

RECURSIVE SubLists(_, _)
SubLists(s, n) ==
  IF s = <<>> \/ n = 0 THEN {<<>>}
  ELSE SubLists(Tail(s), n) \cup {<<s[1]>> \o t : t \in SubLists(Tail(s), n - 1)}

NewRowLists == SubLists(Ranked, MaxNew)

\* the rows of the documents the program starts from
InitTables == {<<>>, <<RowA>>, <<RowA, RowK>>, <<RowE, RowK>>}

\* a hand-edited block: a table followed by a short row and a line of prose
EditedBlock ==
  build_table_text(<<RowA>>) \o <<"NL", "|", " ", "a", " ", "|", " ", "b", " ", "|",
                                  "NL", "a", " ", "b">>

Before == <<"a", "NL">>
After == <<"NL", "b">>

InitDocs ==
  {Before \o AUTO_START \o <<"NL">> \o build_table_text(t) \o <<"NL">> \o AUTO_END \o After :
      t \in InitTables}
  \cup {Before \o AUTO_START \o <<"NL">> \o EditedBlock \o <<"NL">> \o AUTO_END \o After,
        Before \o build_table_text(<<RowA>>) \o <<"NL">> \o AUTO_END \o After,
        Before \o AUTO_START \o <<"NL">> \o build_table_text(<<RowA>>) \o After,
        Before \o AUTO_END \o <<"NL">> \o build_table_text(<<RowA>>) \o <<"NL">> \o AUTO_START \o After}

DescLens == {0, 2, 6}
KeywordLists == {<<>>, <<<<"x">>>>}

RECURSIVE SeqsUpTo(_, _)
SeqsUpTo(S, n) ==
  IF n = 0 THEN {<<>>}
  ELSE LET shorter == SeqsUpTo(S, n - 1)
       IN shorter \cup {Append(q, x) : q \in shorter, x \in S}

Texts == SeqsUpTo({"a", "b", " "}, MaxTextLen)

CandKinds == [has_homepage : BOOLEAN, stars : {50, 100}, pushed_at : {1, 2}]
\* each candidate's row is its place in the filter stage's output
CandLists ==
  {[i \in 1..Len(q) |-> [row |-> i, has_homepage |-> q[i].has_homepage,
                         stars |-> q[i].stars, pushed_at |-> q[i].pushed_at]] :
      q \in SeqsUpTo(CandKinds, MaxCands)}

\* -------------------------------------------------------------------- state
VARIABLES
  content,          \* the README file
  max_total, max_desc_len, exclude_keywords, prune_existing,   \* the configuration
  runs,             \* calls of update_readme so far
  new_rows,         \* the argument of the last call
  existing_rows,    \* its existing_rows, after pruning
  filtered_new,     \* its filtered_new
  merged_rows,      \* its merged_rows, as rendered
  result,           \* "none", "ok" (returned) or "error" (raised RuntimeError)
  added,            \* the value it returned
  writes,           \* calls of write_text so far
  t_text, t_max, t_out, t_done,                  \* a call of truncate_text
  r_cands, r_prefer, r_max, r_out, r_done        \* a call of the ranker

config == <<max_total, max_desc_len, exclude_keywords, prune_existing>>
locals == <<new_rows, existing_rows, filtered_new, merged_rows>>
mergeVars == <<content, config, runs, locals, result, added, writes>>
truncVars == <<t_text, t_max, t_out, t_done>>
rankVars == <<r_cands, r_prefer, r_max, r_out, r_done>>
vars == <<mergeVars, truncVars, rankVars>>

MergeIdle ==
  /\ runs = 0
  /\ new_rows = <<>>
  /\ existing_rows = <<>>
  /\ filtered_new = <<>>
  /\ merged_rows = <<>>
  /\ result = "none"
  /\ added = 0
  /\ writes = 0

NoConfig ==
  /\ content = <<>>
  /\ max_total = 0
  /\ max_desc_len = 0
  /\ exclude_keywords = <<>>
  /\ prune_existing = FALSE

TruncIdle == t_text = <<>> /\ t_max = 0 /\ t_out = <<>> /\ t_done = FALSE
RankIdle == r_cands = <<>> /\ r_prefer = FALSE /\ r_max = 0 /\ r_out = <<>> /\ r_done = FALSE

Init ==
  /\ content \in InitDocs
  /\ max_total \in 0..MaxTotalCap
  /\ max_desc_len \in DescLens
  /\ exclude_keywords \in KeywordLists
  /\ prune_existing \in BOOLEAN
  /\ MergeIdle
  /\ TruncIdle
  /\ RankIdle

\* update_readme raises: nothing is written
update_readme_error ==
  \E text \in {read_text(content)} :
     /\ runs < MaxRuns
     /\ markers_missing(Find(text, AUTO_START[1]), Find(text, AUTO_END[1]))
     /\ \E rows \in NewRowLists : new_rows' = rows
     /\ runs' = runs + 1
     /\ result' = "error"
     /\ UNCHANGED <<content, config, existing_rows, filtered_new, merged_rows, added, writes>>
     /\ UNCHANGED <<truncVars, rankVars>>

\* update_readme returns: the document is rewritten
update_readme_ok ==
  \E text \in {read_text(content)} :
  \E start \in {Find(text, AUTO_START[1])} :
  \E end \in {Find(text, AUTO_END[1])} :
     /\ runs < MaxRuns
     /\ ~markers_missing(start, end)
     /\ \E existing \in {prune_rows(parse_markdown_rows(block_of(text, start, end)),
                                     exclude_keywords, prune_existing)} :
        \E urls \in {existing_urls_of(existing)} :
        \E rows \in NewRowLists :
        \E filtered \in {filter_new(rows, urls)} :
        \E merged \in {merge_rows(filtered, existing, max_total, max_desc_len)} :
          /\ new_rows' = rows
          /\ existing_rows' = existing
          /\ filtered_new' = filtered
          /\ merged_rows' = merged
          /\ content' = write_text(splice(text, start, end, merged))
          /\ added' = Len(filtered)
     /\ runs' = runs + 1
     /\ writes' = writes + 1
     /\ result' = "ok"
     /\ UNCHANGED config
     /\ UNCHANGED <<truncVars, rankVars>>

Next == update_readme_error \/ update_readme_ok

Spec == Init /\ [][Next]_vars

\* ------------------------------------------------ truncate_text on its own
InitTrunc ==
  /\ t_text \in Texts
  /\ t_max \in 0..MaxLenCap
  /\ t_out = <<>>
  /\ t_done = FALSE
  /\ NoConfig
  /\ MergeIdle
  /\ RankIdle

call_truncate_text ==
  /\ ~t_done
  /\ t_out' = truncate_text(t_text, t_max)
  /\ t_done' = TRUE
  /\ UNCHANGED <<t_text, t_max, mergeVars, rankVars>>

NextTrunc == call_truncate_text

SpecTrunc == InitTrunc /\ [][NextTrunc]_vars

\* ------------------------------------------------------ the ranker on its own
InitRank ==
  /\ r_cands \in CandLists
  /\ r_prefer \in BOOLEAN
  /\ r_max \in 0..(MaxCands + 1)
  /\ r_out = <<>>
  /\ r_done = FALSE
  /\ NoConfig
  /\ MergeIdle
  /\ TruncIdle

call_rank ==
  /\ ~r_done
  /\ r_out' = rank_rows(r_cands, r_prefer, r_max)
  /\ r_done' = TRUE
  /\ UNCHANGED <<r_cands, r_prefer, r_max, mergeVars, truncVars>>

NextRank == call_rank

SpecRank == InitRank /\ [][NextRank]_vars

\* =================================================================== claims
UrlOf(row) == extract_url(row[4])
MergeStep == runs' = runs + 1
Returned == result = "ok"
EmptyMerge == MergeStep /\ result' = "ok" /\ new_rows' = <<>>
NormalizedOnce(rows) == [i \in 1..Len(rows) |-> normalize_row(rows[i], max_desc_len)]
NotPruned(rows) ==
  SelectSeq(rows, LAMBDA r :
    ~(prune_existing /\ \E n \in 1..Len(exclude_keywords) :
        Contains(Lower(r[3] \o <<" ">> \o r[5]), Lower(exclude_keywords[n]))))
FirstMaxTotal(rows) ==
  IF max_total > 0 /\ Len(rows) > max_total THEN SubSeq(rows, 1, max_total) ELSE rows
LacksStart(doc) == \A i \in DOMAIN doc : doc[i] # "<S>"
LacksEnd(doc) == \A i \in DOMAIN doc : doc[i] # "<E>"
EndPrecedesStart(doc) ==
  \E e \in DOMAIN doc : doc[e] = "<E>" /\ \A i \in 1..e : doc[i] # "<S>"
\* the pairs (new row, existing row) with the same non-empty URL
Conflicts ==
  {p \in (DOMAIN new_rows) \X (DOMAIN existing_rows) :
     UrlOf(new_rows[p[1]]) # <<>> /\ UrlOf(new_rows[p[1]]) = UrlOf(existing_rows[p[2]])}
\* no row of filtered_new has a conflicting URL, the count leaves the conflicting
\* rows out, and the head of the written table is filtered_new, normalized
NewRowsNotAdded ==
  /\ \A p \in Conflicts : \A k \in DOMAIN filtered_new :
        UrlOf(filtered_new[k]) # UrlOf(new_rows[p[1]])
  /\ added = Len(new_rows) - Cardinality({p[1] : p \in Conflicts})
  /\ \A k \in DOMAIN merged_rows :
        k <= Len(filtered_new) => merged_rows[k] = normalize_row(filtered_new[k], max_desc_len)
\* existing row j is in the written table, after the new rows
ExistingRowAt(j) ==
  /\ Len(filtered_new) + j <= Len(merged_rows)
  /\ merged_rows[Len(filtered_new) + j] = normalize_row(existing_rows[j], max_desc_len)
\* the places of the written table that hold rows of new_rows
RowsFromNew == {k \in DOMAIN merged_rows : k <= Len(filtered_new)}
IsPrefixOf(p, s) == Len(p) <= Len(s) /\ SubSeq(s, 1, Len(p)) = p
KeyOf(i) ==
  IF r_prefer
  THEN <<IF r_cands[i].has_homepage THEN 1 ELSE 0, r_cands[i].stars, r_cands[i].pushed_at>>
  ELSE <<r_cands[i].stars, r_cands[i].pushed_at>>
Precedes(a, b) ==
  \E n \in 1..Len(a) : a[n] > b[n] /\ \A m \in 1..(n - 1) : a[m] = b[m]
RanksBefore(i, j) ==
  Precedes(KeyOf(i), KeyOf(j)) \/ (KeyOf(i) = KeyOf(j) /\ i < j)

\* C1: after a merge that succeeds, no two rows of the written table have the
\* same non-empty extracted URL.
C1_NoDuplicateUrls ==
  Returned =>
    \A i, j \in DOMAIN merged_rows :
      (i < j /\ UrlOf(merged_rows[i]) # <<>>) => UrlOf(merged_rows[i]) # UrlOf(merged_rows[j])

\* C2: a merge with the same new_rows as the successful merge before it, under
\* the same configuration, leaves the table as that merge left it.
C2_Idempotent ==
  [][(Returned /\ MergeStep /\ result' = "ok" /\ new_rows' = new_rows)
        => table_of(content') = table_of(content)]_vars

\* C3, as claimed: merging an empty new_rows list writes exactly the existing
\* rows, in the same order, each normalized once, and returns 0.
C3_EmptyMergeUnchanged ==
  [][EmptyMerge => (table_of(content') = NormalizedOnce(table_of(content)) /\ added' = 0)]_vars

\* C3, as amended: merging an empty new_rows list returns 0 and writes the
\* existing rows that survive pruning, in the same order, each normalized
\* once, cut to the first max_total rows when max_total is not 0.
C3_EmptyMergeKeepsSurvivors ==
  [][EmptyMerge =>
       /\ table_of(content') = FirstMaxTotal(NormalizedOnce(NotPruned(table_of(content))))
       /\ added' = 0]_vars

\* C3, witness: an empty merge has returned 0 and the cut to max_total rows
\* has dropped an existing row.
C3_Witness ==
  /\ Returned /\ new_rows = <<>> /\ added = 0
  /\ merged_rows # <<>>
  /\ Len(merged_rows) < Len(existing_rows)

\* C4: whenever max_total > 0, after any sequence of merges the written table
\* has at most max_total data rows.
C4_BoundedGrowth ==
  (Returned /\ max_total > 0) =>
    /\ Len(merged_rows) <= max_total
    /\ Len(table_of(content)) <= max_total

\* C4, witness: the second merge had more rows than max_total to write and
\* wrote max_total.
C4_Witness ==
  /\ Returned /\ runs = 2 /\ max_total > 0
  /\ Len(filtered_new) + Len(existing_rows) > max_total
  /\ Len(table_of(content)) = max_total

\* C5: a document that lacks the start marker, lacks the end marker, or has
\* its end marker before its start marker makes the merge fail; a merge that
\* fails writes nothing and leaves the document as it was; a merge that
\* returns has written the document exactly once.
C5_AllOrNothing ==
  [][MergeStep =>
       /\ (LacksStart(content) \/ LacksEnd(content) \/ EndPrecedesStart(content))
             => result' = "error"
       /\ result' = "error" => (content' = content /\ writes' = writes)
       /\ result' = "ok" => writes' = writes + 1]_vars

\* C5, witness: a merge has failed on a document that holds both markers, the
\* end marker first, and nothing was written.
C5_Witness ==
  /\ result = "error" /\ runs > 0 /\ writes = 0
  /\ ~LacksStart(content) /\ ~LacksEnd(content) /\ EndPrecedesStart(content)

\* C6, as claimed: a new row whose URL is the URL of an existing row (after
\* pruning) is neither placed in the table nor counted, and that existing row
\* is kept in the table.
C6_ExistingKept ==
  Returned => (NewRowsNotAdded /\ \A p \in Conflicts : ExistingRowAt(p[2]))

\* C6, as amended: a new row whose URL is the URL of an existing row (after
\* pruning) is neither placed in the table nor counted, and that existing row
\* is kept, after the surviving new rows, unless the cut to max_total rows
\* removes it.
C6_ExistingWins ==
  Returned =>
    /\ NewRowsNotAdded
    /\ \A p \in Conflicts :
         (max_total = 0 \/ Len(filtered_new) + p[2] <= max_total) => ExistingRowAt(p[2])

\* C6, witness: a merge dropped a conflicting new row, added another one and
\* kept the existing rows in conflict.
C6_Witness ==
  /\ Returned /\ Conflicts # {}
  /\ filtered_new # <<>> /\ added < Len(new_rows)
  /\ \A p \in Conflicts : ExistingRowAt(p[2])

\* C7: the integer returned is the number of rows of new_rows that the merge
\* put in the written table.
C7_CountIsRowsAdded == Returned => added = Cardinality(RowsFromNew)

\* C8: truncate_text(text, 0) is text; for max_len > 0 the result has at most
\* max_len characters, is text when text is that short, and otherwise is a
\* prefix of at most max_len - 3 characters, right-trimmed, followed by "...".
C8_TruncateBound ==
  t_done =>
    /\ t_max = 0 => t_out = t_text
    /\ t_max > 0 => Len(t_out) <= t_max
    /\ (t_max > 0 /\ Len(t_text) <= t_max) => t_out = t_text
    /\ (t_max > 0 /\ Len(t_text) > t_max) =>
         \E kept \in {SubSeq(t_text, 1, n) : n \in 0..Len(t_text)} :
            /\ IsPrefixOf(kept, t_text)
            /\ Len(kept) <= t_max - 3
            /\ (kept = <<>> \/ ~IsSpace(kept[Len(kept)]))
            /\ t_out = kept \o <<".", ".", ".">>

\* C9: the ranker returns the first max_new candidates in descending order of
\* (has-homepage, stars, last-activity) when prefer_homepage is set and of
\* (stars, last-activity) otherwise, candidates with identical keys in the
\* order they came in.
C9_StableRanking ==
  r_done =>
    /\ Len(r_out) = (IF r_max < Len(r_cands) THEN r_max ELSE Len(r_cands))
    /\ \A n \in DOMAIN r_out : r_out[n] \in DOMAIN r_cands
    /\ \A n, m \in DOMAIN r_out : n < m => RanksBefore(r_out[n], r_out[m])
    /\ \A i \in DOMAIN r_cands :
         (\A n \in DOMAIN r_out : r_out[n] # i) =>
            \A n \in DOMAIN r_out : RanksBefore(r_out[n], i)

\* C9, witness: with prefer_homepage set, the first and third of three
\* candidates tie ahead of the second, and the first two of the order are
\* returned.
C9_Witness ==
  /\ r_done /\ r_prefer /\ Len(r_cands) = 3 /\ r_max = 2
  /\ KeyOf(1) = KeyOf(3) /\ Precedes(KeyOf(1), KeyOf(2))
  /\ r_out = <<1, 3>>

\* C10: every row a merge writes is read back by the next run as the same
\* five cells, with the same URL: the table read back is the table written.
C10_RoundTrip == Returned => table_of(content) = merged_rows
====
